---- MODULE Spec2Model ----
(***************************************************************************)
(* A model of hporecord's record schema (src/lib.rs): the value types, the *)
(* derived serde Serialize / Deserialize implementations with their        *)
(* attributes (tag, flatten, default, skip_serializing_if, rename_all),    *)
(* the nullable_f64_vec codec, and the accessors of Span and ParamRange.   *)
(* The wire form is a JSON value tree.                                     *)
(***************************************************************************)
EXTENDS Integers, Sequences, FiniteSets, TLC

VARIABLES val, wire, out, pc

vars == <<val, wire, out, pc>>

(***************************************************************************)
(* Bounds of the explored inputs.                                          *)
(***************************************************************************)
MaxFin == 1
MaxLen == 2
MaxTrial == 1

(***************************************************************************)
(* f64.  A finite value is an integer n, or one of five finite values of   *)
(* 2^64 or more, which no Duration can hold:                               *)
(*     Huge(0) = 18446744073709551616.0 (2^64)                             *)
(*     Huge(1) = 1e300                                                     *)
(*     Huge(2) = 2.2790121708605243e274                                    *)
(*     Huge(3) = 2.2790121708605247e274                                    *)
(*     Huge(4) = 2.279012170860525e274                                     *)
(* The three non-finite classes are kept apart.  Structural equality tells *)
(* NaN from everything else; F64Eq is the == of f64, under which NaN       *)
(* equals nothing and two different values are different.                  *)
(***************************************************************************)
Fin(n) == [k |-> "fin", n |-> n]
Huge(i) == [k |-> "huge", n |-> i]
NAN == [k |-> "nan", n |-> 0]
INFINITY == [k |-> "inf", n |-> 0]
NEG_INFINITY == [k |-> "ninf", n |-> 0]

is_finite(v) == v.k \in {"fin", "huge"}
is_nan(v) == v.k = "nan"
F64Eq(a, b) == ~is_nan(a) /\ ~is_nan(b) /\ a = b

FinVals == {Fin(n) : n \in -1..MaxFin}
F64s == FinVals \cup {NAN, INFINITY, NEG_INFINITY, Huge(2)}

(***************************************************************************)
(* Option<T> and Result<T, E>.                                             *)
(***************************************************************************)
None == [some |-> FALSE]
Some(x) == [some |-> TRUE, v |-> x]

Ok(x) == [ok |-> TRUE, val |-> x]
Err == [ok |-> FALSE, err |-> "malformed"]
Panic == [ok |-> FALSE, err |-> "panic"]
NoResult == [ok |-> FALSE, err |-> "none"]

(***************************************************************************)
(* JSON values.  A number written by an f64 is a JFloat, one written by an *)
(* integer a JInt.  An object is a function from its keys to its values.   *)
(***************************************************************************)
JNull == [j |-> "null"]
JFloat(n) == [j |-> "float", n |-> n]
JInt(n) == [j |-> "int", n |-> n]
JStr(s) == [j |-> "str", s |-> s]
JArr(xs) == [j |-> "arr", items |-> xs]
JObj(f) == [j |-> "obj", fields |-> f]
JBool(b) == [j |-> "bool", b |-> b]
\* The number literal of Huge(i): its shortest decimal form.
JHuge(i) == [j |-> "huge", n |-> i]

NoFields == <<>>
Field(cond, key, v) == IF cond THEN key :> v ELSE NoFields
Has(w, key) == key \in DOMAIN w.fields
Get(w, key) == w.fields[key]

\* The number parser takes the digits of a literal as an integer, rounds it
\* to an f64 and scales it by one multiplication with a power of ten.  The
\* result is the f64 nearest the literal or a neighbour of it: the literal
\* of Huge(i) is read as Huge(ReadBack(i)).  2^64 and 1e300 are read exactly;
\* 2.2790121708605243e274 is read as 2.2790121708605247e274, that one as
\* 2.279012170860525e274, and that one as 2.2790121708605247e274 again.
ReadBack(i) ==
    CASE i = 2 -> 3
      [] i = 3 -> 4
      [] i = 4 -> 3
      [] OTHER -> i

\* JSON has no literal for a non-finite number: it is written as null, and
\* null is not read back as an f64.  The integers of the model are read
\* exactly.
f64_serialize(v) ==
    IF v.k = "huge" THEN JHuge(v.n)
    ELSE IF is_finite(v) THEN JFloat(v.n)
    ELSE JNull
f64_deserialize(w) ==
    IF w.j \in {"float", "int"} THEN Ok(Fin(w.n))
    ELSE IF w.j = "huge" THEN Ok(Huge(ReadBack(w.n)))
    ELSE Err

\* u32: a JSON integer in 0..2^32-1; a float literal or a negative integer is
\* refused.  Every integer of the model lies below 2^32.
u32_serialize(n) == JInt(n)
u32_deserialize(w) == IF w.j = "int" /\ w.n >= 0 THEN Ok(w.n) ELSE Err

String_serialize(s) == JStr(s)
String_deserialize(w) == IF w.j = "str" THEN Ok(w.s) ELSE Err

\* Option<f64>: None is null, Some(v) is v's own form; null reads as None.
Option_f64_serialize(o) == IF o.some THEN f64_serialize(o.v) ELSE JNull
Option_f64_deserialize(w) ==
    IF w.j = "null" THEN Ok(None)
    ELSE IF f64_deserialize(w).ok THEN Ok(Some(f64_deserialize(w).val))
    ELSE Err

\* Vec<T>: an array, element by element; one bad element fails the whole.
Vec_serialize(xs, Ser(_)) == JArr([i \in 1..Len(xs) |-> Ser(xs[i])])
Vec_deserialize(w, De(_)) ==
    IF w.j # "arr" THEN Err
    ELSE IF \A i \in 1..Len(w.items) : De(w.items[i]).ok
         THEN Ok([i \in 1..Len(w.items) |-> De(w.items[i]).val])
         ELSE Err

\* A derived struct decoder reads an object by key (visit_map; unknown keys
\* are ignored) or an array by position (visit_seq): element i is field i of
\* the declaration, and an array longer than the struct is refused.
StructForm(w, n) == w.j = "obj" \/ (w.j = "arr" /\ Len(w.items) <= n)
Present(w, key, i) ==
    IF w.j = "obj" THEN key \in DOMAIN w.fields ELSE i <= Len(w.items)
Raw(w, key, i) == IF w.j = "obj" THEN w.fields[key] ELSE w.items[i]
\* A required field: an absent key, or an array that ends before it, fails.
Required(w, key, i, De(_)) ==
    IF Present(w, key, i) THEN De(Raw(w, key, i)) ELSE Err
\* A #[serde(default ...)] field: the default when the key is absent or the
\* array ends before it.
Defaulted(w, key, i, De(_), dflt) ==
    IF Present(w, key, i) THEN De(Raw(w, key, i)) ELSE Ok(dflt)

\* A unit variant is written as its name.  The derived decoder takes the name
\* as a string, or as the one key of an object whose value is the unit: null
\* when read straight from JSON; null or an empty object when read from the
\* content an internally tagged enum has buffered.  "" names no variant.
UnitVariant(w) ==
    IF w.j = "str" THEN w.s
    ELSE IF w.j = "obj" /\ Cardinality(DOMAIN w.fields) = 1
    THEN LET key == CHOOSE k \in DOMAIN w.fields : TRUE
             unit == w.fields[key]
         IN IF unit.j = "null" THEN key ELSE ""
    ELSE ""
UnitVariantBuffered(w) ==
    IF w.j = "str" THEN w.s
    ELSE IF w.j = "obj" /\ Cardinality(DOMAIN w.fields) = 1
    THEN LET key == CHOOSE k \in DOMAIN w.fields : TRUE
             unit == w.fields[key]
         IN IF unit.j = "null" \/ (unit.j = "obj" /\ DOMAIN unit.fields = {})
            THEN key
            ELSE ""
    ELSE ""

(***************************************************************************)
(* Span                                                                    *)
(***************************************************************************)
Span_new(start, end) == [start |-> start, end |-> end]

\* Duration::from_secs_f64 panics on a value that is negative, not finite,
\* or too large for a Duration (2^64 seconds or more).
Duration_from_secs_f64(x) ==
    IF ~is_finite(x) THEN Panic
    ELSE IF x.k = "huge" THEN Panic
    ELSE IF x.n < 0 THEN Panic
    ELSE Ok(x.n)
\* Duration - Duration panics when the result would be negative.
Duration_sub(a, b) == IF a >= b THEN Ok(a - b) ELSE Panic

Span_start(self) == Duration_from_secs_f64(self.start)
Span_end(self) == Duration_from_secs_f64(self.end)

\* duration() with the operands exchanged, and duration() as written.
Span_duration_swapped(self) ==
    IF Span_end(self).ok /\ Span_start(self).ok
    THEN Duration_sub(Span_start(self).val, Span_end(self).val)
    ELSE Panic
Span_duration(self) ==
    IF Span_end(self).ok /\ Span_start(self).ok
    THEN Duration_sub(Span_end(self).val, Span_start(self).val)
    ELSE Panic

Span_serialize(s) ==
    JObj(("start" :> f64_serialize(s.start)) @@ ("end" :> f64_serialize(s.end)))
Span_deserialize(w) ==
    IF ~StructForm(w, 2) THEN Err
    ELSE LET s == Required(w, "start", 1, f64_deserialize)
             e == Required(w, "end", 2, f64_deserialize)
         IN IF s.ok /\ e.ok THEN Ok([start |-> s.val, end |-> e.val]) ELSE Err

(***************************************************************************)
(* SpanDef                                                                 *)
(***************************************************************************)
SpanDef_new(name) == [name |-> name]
SpanDef_serialize(d) == JObj("name" :> JStr(d.name))
SpanDef_deserialize(w) ==
    IF ~StructForm(w, 1) THEN Err
    ELSE LET n == Required(w, "name", 1, String_deserialize)
         IN IF n.ok THEN Ok([name |-> n.val]) ELSE Err

(***************************************************************************)
(* Scale, Direction, EvalState: unit-variant enums, rename_all UPPERCASE.  *)
(***************************************************************************)
Directions == {"Minimize", "Maximize"}
EvalStates == {"Complete", "Interim", "Failed", "Infeasible"}

Scale_is_default(self) == self = "Linear"
\* A default of Log, and the default as written.
Scale_default_log == "Log"
Scale_default == "Linear"

Scale_serialize(s) == JStr(IF s = "Linear" THEN "LINEAR" ELSE "LOG")
Scale_of(name) ==
    IF name = "LINEAR" THEN Ok("Linear")
    ELSE IF name = "LOG" THEN Ok("Log")
    ELSE Err
Scale_deserialize(w) == Scale_of(UnitVariant(w))
\* Scale as a field of ParamRange, read from the buffered content.
Scale_deserialize_buffered(w) == Scale_of(UnitVariantBuffered(w))

Direction_serialize(d) == JStr(IF d = "Minimize" THEN "MINIMIZE" ELSE "MAXIMIZE")
Direction_deserialize(w) ==
    IF UnitVariant(w) = "MINIMIZE" THEN Ok("Minimize")
    ELSE IF UnitVariant(w) = "MAXIMIZE" THEN Ok("Maximize")
    ELSE Err

EvalState_serialize(s) ==
    JStr(CASE s = "Complete" -> "COMPLETE"
           [] s = "Interim" -> "INTERIM"
           [] s = "Failed" -> "FAILED"
           [] s = "Infeasible" -> "INFEASIBLE")
EvalState_deserialize(w) ==
    CASE UnitVariant(w) = "COMPLETE" -> Ok("Complete")
      [] UnitVariant(w) = "INTERIM" -> Ok("Interim")
      [] UnitVariant(w) = "FAILED" -> Ok("Failed")
      [] UnitVariant(w) = "INFEASIBLE" -> Ok("Infeasible")
      [] OTHER -> Err

(***************************************************************************)
(* ParamRange: internally tagged by "type", variant names in kebab-case.   *)
(***************************************************************************)
Numerical(min, max, step, scale) ==
    [variant |-> "Numerical", min |-> min, max |-> max, step |-> step, scale |-> scale]
Categorical(choices) == [variant |-> "Categorical", choices |-> choices]

ParamRange_continuous(min, max) == Numerical(min, max, None, "Linear")
ParamRange_log_continuous(min, max) == Numerical(min, max, None, "Log")
ParamRange_discrete(min, max, step) == Numerical(min, max, Some(step), "Linear")
ParamRange_categorical(choices) == Categorical(choices)

ParamRange_min(self) ==
    IF self.variant = "Numerical" THEN self.min ELSE Fin(0)

\* max() as the last index of the choices, and max() as written.
ParamRange_max_last_index(self) ==
    IF self.variant = "Numerical" THEN self.max ELSE Fin(Len(self.choices) - 1)
ParamRange_max(self) ==
    IF self.variant = "Numerical" THEN self.max ELSE Fin(Len(self.choices))

ParamRange_scale(self) ==
    IF self.variant = "Numerical" THEN self.scale ELSE "Linear"

\* The fields the variant writes, the tag first; step is skipped when None,
\* scale when it is the default.
ParamRange_fields(r) ==
    IF r.variant = "Numerical"
    THEN ("type" :> JStr("numerical"))
         @@ ("min" :> f64_serialize(r.min))
         @@ ("max" :> f64_serialize(r.max))
         @@ Field(r.step.some, "step", Option_f64_serialize(r.step))
         @@ Field(~Scale_is_default(r.scale), "scale", Scale_serialize(r.scale))
    ELSE ("type" :> JStr("categorical"))
         @@ ("choices" :> Vec_serialize(r.choices, String_serialize))
ParamRange_serialize(r) == JObj(ParamRange_fields(r))

\* The fields of a variant, read from the content buffered while the tag was
\* looked for: an object, or the rest of an array after the tag.
Numerical_deserialize(c) ==
    IF ~StructForm(c, 4) THEN Err
    ELSE LET mn == Required(c, "min", 1, f64_deserialize)
             mx == Required(c, "max", 2, f64_deserialize)
             st == Defaulted(c, "step", 3, Option_f64_deserialize, None)
             sc == Defaulted(c, "scale", 4, Scale_deserialize_buffered, Scale_default)
         IN IF mn.ok /\ mx.ok /\ st.ok /\ sc.ok
            THEN Ok(Numerical(mn.val, mx.val, st.val, sc.val))
            ELSE Err
Choices_deserialize(w) == Vec_deserialize(w, String_deserialize)
Categorical_deserialize(c) ==
    IF ~StructForm(c, 1) THEN Err
    ELSE LET ch == Required(c, "choices", 1, Choices_deserialize)
         IN IF ch.ok THEN Ok(Categorical(ch.val)) ELSE Err

\* The variant a tag names, "" when none.  A tag read straight from JSON is
\* the kebab-case name of the variant; a tag read from buffered content, as
\* it is when the range is flattened into a ParamDef, is the name or the
\* index of the variant in the declaration (0 Numerical, 1 Categorical).
VariantByName(t) ==
    IF t = JStr("numerical") THEN "Numerical"
    ELSE IF t = JStr("categorical") THEN "Categorical"
    ELSE ""
VariantByNameOrIndex(t) ==
    IF t = JInt(0) THEN "Numerical"
    ELSE IF t = JInt(1) THEN "Categorical"
    ELSE VariantByName(t)
ParamRange_variant(v, c) ==
    IF v = "Numerical" THEN Numerical_deserialize(c)
    ELSE IF v = "Categorical" THEN Categorical_deserialize(c)
    ELSE Err

\* ParamRange on its own: the tag is the "type" field of an object or the
\* first element of an array.
ParamRange_deserialize(w) ==
    IF w.j = "obj"
    THEN IF Has(w, "type")
         THEN ParamRange_variant(VariantByName(Get(w, "type")), w)
         ELSE Err
    ELSE IF w.j = "arr" /\ Len(w.items) >= 1
    THEN ParamRange_variant(VariantByName(w.items[1]), JArr(Tail(w.items)))
    ELSE Err
\* ParamRange flattened into the object w of a ParamDef.
ParamRange_deserialize_flattened(w) ==
    IF Has(w, "type")
    THEN ParamRange_variant(VariantByNameOrIndex(Get(w, "type")), w)
    ELSE Err

\* derive(PartialEq): same variant and every field equal, f64 by ==.
Option_f64_eq(a, b) ==
    IF a.some /\ b.some THEN F64Eq(a.v, b.v) ELSE a.some = b.some
ParamRange_eq(a, b) ==
    /\ a.variant = b.variant
    /\ IF a.variant = "Numerical"
       THEN /\ F64Eq(a.min, b.min)
            /\ F64Eq(a.max, b.max)
            /\ Option_f64_eq(a.step, b.step)
            /\ a.scale = b.scale
       ELSE a.choices = b.choices

(***************************************************************************)
(* ParamDef: name, and the range flattened into the same object.           *)
(***************************************************************************)
ParamDef_continuous(name, min, max) ==
    [name |-> name, range |-> ParamRange_continuous(min, max)]
ParamDef_log_continuous(name, min, max) ==
    [name |-> name, range |-> ParamRange_log_continuous(min, max)]
ParamDef_discrete(name, min, max, step) ==
    [name |-> name, range |-> ParamRange_discrete(min, max, step)]
ParamDef_categorical(name, choices) ==
    [name |-> name, range |-> ParamRange_categorical(choices)]

ParamDef_serialize(p) ==
    JObj(("name" :> JStr(p.name)) @@ ParamRange_fields(p.range))
\* A struct with a flattened field is read from an object only.
ParamDef_deserialize(w) ==
    IF w.j # "obj" THEN Err
    ELSE LET n == Required(w, "name", 1, String_deserialize)
             r == ParamRange_deserialize_flattened(w)
         IN IF n.ok /\ r.ok THEN Ok([name |-> n.val, range |-> r.val]) ELSE Err

ParamDef_eq(a, b) == a.name = b.name /\ ParamRange_eq(a.range, b.range)

(***************************************************************************)
(* ValueRange, ValueDef                                                    *)
(***************************************************************************)
neg_infinity == NEG_INFINITY
\* A predicate that never skips min, and the predicates as written.
is_neg_infinity_never(v) == FALSE
is_neg_infinity(v) == F64Eq(v, NEG_INFINITY)
infinity == INFINITY
is_infinity(v) == F64Eq(v, INFINITY)

ValueRange_is_default(self) ==
    F64Eq(self.min, NEG_INFINITY) /\ F64Eq(self.max, INFINITY)
ValueRange_default == [min |-> NEG_INFINITY, max |-> INFINITY]

ValueRange_serialize(r) ==
    JObj(Field(~is_neg_infinity(r.min), "min", f64_serialize(r.min))
         @@ Field(~is_infinity(r.max), "max", f64_serialize(r.max)))
ValueRange_deserialize(w) ==
    IF ~StructForm(w, 2) THEN Err
    ELSE LET mn == Defaulted(w, "min", 1, f64_deserialize, neg_infinity)
             mx == Defaulted(w, "max", 2, f64_deserialize, infinity)
         IN IF mn.ok /\ mx.ok THEN Ok([min |-> mn.val, max |-> mx.val]) ELSE Err

ValueDef_new(name, direction) ==
    [name |-> name, range |-> ValueRange_default, direction |-> direction]

ValueDef_serialize(d) ==
    JObj(("name" :> JStr(d.name))
         @@ Field(~ValueRange_is_default(d.range), "range", ValueRange_serialize(d.range))
         @@ ("direction" :> Direction_serialize(d.direction)))
ValueDef_deserialize(w) ==
    IF ~StructForm(w, 3) THEN Err
    ELSE LET n == Required(w, "name", 1, String_deserialize)
             r == Defaulted(w, "range", 2, ValueRange_deserialize, ValueRange_default)
             d == Required(w, "direction", 3, Direction_deserialize)
         IN IF n.ok /\ r.ok /\ d.ok
            THEN Ok([name |-> n.val, range |-> r.val, direction |-> d.val])
            ELSE Err

(***************************************************************************)
(* nullable_f64_vec: the codec of EvalRecord.params and EvalRecord.values.  *)
(* serialize maps the slice to Vec<Option<f64>>, deserialize maps back.    *)
(***************************************************************************)
\* The map with the test inverted, and the map as written (is_finite).
nullable_f64_vec_to_options_inverted(v) ==
    [i \in 1..Len(v) |-> IF is_finite(v[i]) THEN None ELSE Some(v[i])]
nullable_f64_vec_to_options(v) ==
    [i \in 1..Len(v) |-> IF is_finite(v[i]) THEN Some(v[i]) ELSE None]

nullable_f64_vec_serialize(v) ==
    Vec_serialize(nullable_f64_vec_to_options(v), Option_f64_serialize)

\* The map with 0.0 for an absent entry, and the map as written (NAN).
nullable_f64_vec_from_options_zero(o) ==
    [i \in 1..Len(o) |-> IF o[i].some THEN o[i].v ELSE Fin(0)]
nullable_f64_vec_from_options(o) ==
    [i \in 1..Len(o) |-> IF o[i].some THEN o[i].v ELSE NAN]

nullable_f64_vec_deserialize(w) ==
    LET r == Vec_deserialize(w, Option_f64_deserialize)
    IN IF r.ok THEN Ok(nullable_f64_vec_from_options(r.val)) ELSE Err

(***************************************************************************)
(* StudyRecord: attrs has #[serde(default)] and is always written.         *)
(***************************************************************************)
Attrs_serialize(m) == JObj([key \in DOMAIN m |-> JStr(m[key])])
Attrs_deserialize(w) ==
    IF w.j # "obj" THEN Err
    ELSE IF \A key \in DOMAIN w.fields : String_deserialize(w.fields[key]).ok
         THEN Ok([key \in DOMAIN w.fields |-> w.fields[key].s])
         ELSE Err

ParamDefs_serialize(xs) == Vec_serialize(xs, ParamDef_serialize)
ParamDefs_deserialize(w) == Vec_deserialize(w, ParamDef_deserialize)
ValueDefs_serialize(xs) == Vec_serialize(xs, ValueDef_serialize)
ValueDefs_deserialize(w) == Vec_deserialize(w, ValueDef_deserialize)
SpanDefs_serialize(xs) == Vec_serialize(xs, SpanDef_serialize)
SpanDefs_deserialize(w) == Vec_deserialize(w, SpanDef_deserialize)
Spans_serialize(xs) == Vec_serialize(xs, Span_serialize)
Spans_deserialize(w) == Vec_deserialize(w, Span_deserialize)

StudyRecord_serialize(r) ==
    JObj([id |-> JStr(r.id),
          attrs |-> Attrs_serialize(r.attrs),
          spans |-> SpanDefs_serialize(r.spans),
          params |-> ParamDefs_serialize(r.params),
          values |-> ValueDefs_serialize(r.values)])
StudyRecord_deserialize(w) ==
    IF ~StructForm(w, 5) THEN Err
    ELSE LET id == Required(w, "id", 1, String_deserialize)
             at == Defaulted(w, "attrs", 2, Attrs_deserialize, NoFields)
             sp == Required(w, "spans", 3, SpanDefs_deserialize)
             pa == Required(w, "params", 4, ParamDefs_deserialize)
             va == Required(w, "values", 5, ValueDefs_deserialize)
         IN IF id.ok /\ at.ok /\ sp.ok /\ pa.ok /\ va.ok
            THEN Ok([id |-> id.val, attrs |-> at.val, spans |-> sp.val,
                     params |-> pa.val, values |-> va.val])
            ELSE Err

(***************************************************************************)
(* EvalRecord: params and values go through nullable_f64_vec.              *)
(***************************************************************************)
EvalRecord_serialize(r) ==
    JObj([study |-> JStr(r.study),
          trial |-> u32_serialize(r.trial),
          state |-> EvalState_serialize(r.state),
          spans |-> Spans_serialize(r.spans),
          params |-> nullable_f64_vec_serialize(r.params),
          values |-> nullable_f64_vec_serialize(r.values)])
\* A decoder that reads values as a plain Vec<f64>, and the decoder as
\* derived, with nullable_f64_vec on both params and values.
Plain_f64_vec_deserialize(w) == Vec_deserialize(w, f64_deserialize)
EvalRecord_deserialize_values_plain(w) ==
    IF ~StructForm(w, 6) THEN Err
    ELSE LET st == Required(w, "study", 1, String_deserialize)
             tr == Required(w, "trial", 2, u32_deserialize)
             es == Required(w, "state", 3, EvalState_deserialize)
             sp == Required(w, "spans", 4, Spans_deserialize)
             pa == Required(w, "params", 5, nullable_f64_vec_deserialize)
             va == Required(w, "values", 6, Plain_f64_vec_deserialize)
         IN IF st.ok /\ tr.ok /\ es.ok /\ sp.ok /\ pa.ok /\ va.ok
            THEN Ok([study |-> st.val, trial |-> tr.val, state |-> es.val,
                     spans |-> sp.val, params |-> pa.val, values |-> va.val])
            ELSE Err
EvalRecord_deserialize(w) ==
    IF ~StructForm(w, 6) THEN Err
    ELSE LET st == Required(w, "study", 1, String_deserialize)
             tr == Required(w, "trial", 2, u32_deserialize)
             es == Required(w, "state", 3, EvalState_deserialize)
             sp == Required(w, "spans", 4, Spans_deserialize)
             pa == Required(w, "params", 5, nullable_f64_vec_deserialize)
             va == Required(w, "values", 6, nullable_f64_vec_deserialize)
         IN IF st.ok /\ tr.ok /\ es.ok /\ sp.ok /\ pa.ok /\ va.ok
            THEN Ok([study |-> st.val, trial |-> tr.val, state |-> es.val,
                     spans |-> sp.val, params |-> pa.val, values |-> va.val])
            ELSE Err

(***************************************************************************)
(* Record: an enum with no tag attribute, so externally tagged: an object  *)
(* with the one key "study" or "eval" (kebab-case) holding the variant,    *)
(* itself in either form a struct is read from.                            *)
(***************************************************************************)
Study(r) == [variant |-> "Study", v |-> r]
Eval(r) == [variant |-> "Eval", v |-> r]

\* The encoding an internal tag = "type" would give, and the encoding as
\* derived.
Record_serialize_internally_tagged(r) ==
    IF r.variant = "Study"
    THEN JObj(("type" :> JStr("study")) @@ StudyRecord_serialize(r.v).fields)
    ELSE JObj(("type" :> JStr("eval")) @@ EvalRecord_serialize(r.v).fields)
Record_serialize(r) ==
    IF r.variant = "Study"
    THEN JObj("study" :> StudyRecord_serialize(r.v))
    ELSE JObj("eval" :> EvalRecord_serialize(r.v))

Record_deserialize(w) ==
    IF w.j # "obj" \/ Cardinality(DOMAIN w.fields) # 1 THEN Err
    ELSE IF Has(w, "study")
    THEN LET r == StudyRecord_deserialize(Get(w, "study"))
         IN IF r.ok THEN Ok(Study(r.val)) ELSE Err
    ELSE IF Has(w, "eval")
    THEN LET r == EvalRecord_deserialize(Get(w, "eval"))
         IN IF r.ok THEN Ok(Eval(r.val)) ELSE Err
    ELSE Err

(***************************************************************************)
(* The explored inputs.                                                    *)
(***************************************************************************)
SeqsUpTo(S, n) == UNION {[1..m -> S] : m \in 0..n}

Vecs == SeqsUpTo(F64s, MaxLen)
ShortVecs == SeqsUpTo({Fin(0), NAN, INFINITY}, 1)
ChoiceLists == SeqsUpTo({"a", "b"}, MaxLen)

Spans ==
    LET SpanSeconds == F64s \cup {Huge(0)}
    IN {Span_new(s, e) : s \in SpanSeconds, e \in SpanSeconds}

ParamDefs ==
    {ParamDef_continuous("p", mn, mx) : mn \in F64s, mx \in F64s}
    \cup {ParamDef_log_continuous("p", mn, mx) : mn \in F64s, mx \in F64s}
    \cup {ParamDef_discrete("p", mn, mx, st) : mn \in F64s, mx \in F64s, st \in F64s}
    \cup {ParamDef_categorical("p", ch) : ch \in ChoiceLists}

ValueDefs ==
    {[ValueDef_new("v", d) EXCEPT !.range = [min |-> mn, max |-> mx]] :
        mn \in F64s, mx \in F64s, d \in Directions}

AttrMaps == {NoFields, "k" :> "x"}
SpanDefLists == SeqsUpTo({SpanDef_new("t")}, MaxLen)

BaseStudy ==
    [id |-> "s1", attrs |-> NoFields, spans |-> <<>>, params |-> <<>>, values |-> <<>>]
StudyRecords ==
    {[BaseStudy EXCEPT !.params = <<q>>] : q \in ParamDefs}
    \cup {[BaseStudy EXCEPT !.values = <<d>>] : d \in ValueDefs}
    \cup {[BaseStudy EXCEPT !.attrs = a, !.spans = sd] : a \in AttrMaps, sd \in SpanDefLists}

BaseEval ==
    [study |-> "s1", trial |-> 0, state |-> "Complete", spans |-> <<>>,
     params |-> <<>>, values |-> <<>>]
EvalRecords ==
    {[BaseEval EXCEPT !.params = a, !.values = b] : a \in Vecs, b \in ShortVecs}
    \cup {[BaseEval EXCEPT !.params = b, !.values = a] : a \in Vecs, b \in ShortVecs}
    \cup {[BaseEval EXCEPT !.trial = t, !.state = st, !.spans = sp] :
            t \in 0..MaxTrial, st \in EvalStates, sp \in SeqsUpTo(Spans, 1)}

Records == {Eval(r) : r \in EvalRecords} \cup {Study(r) : r \in StudyRecords}

(***************************************************************************)
(* SpecRecord: a Record is built, encoded, and the encoding decoded.       *)
(***************************************************************************)
InitRecord ==
    /\ val \in Records
    /\ wire = JNull
    /\ out = NoResult
    /\ pc = "record-built"

RecordEncode ==
    /\ pc = "record-built"
    /\ wire' = Record_serialize(val)
    /\ pc' = "record-encoded"
    /\ UNCHANGED <<val, out>>

RecordDecode ==
    /\ pc = "record-encoded"
    /\ out' = Record_deserialize(wire)
    /\ pc' = "record-decoded"
    /\ UNCHANGED <<val, wire>>

NextRecord == RecordEncode \/ RecordDecode

SpecRecord == InitRecord /\ [][NextRecord]_vars

(***************************************************************************)
(* Properties of SpecRecord.                                               *)
(***************************************************************************)
\* The f64 fields that are written as plain JSON numbers hold values JSON
\* can carry: every one is finite, except that a ValueRange may keep its
\* default bounds (min = -inf, max = +inf), which are omitted.
FiniteParamRange(r) ==
    r.variant = "Numerical" =>
        /\ is_finite(r.min)
        /\ is_finite(r.max)
        /\ (r.step.some => is_finite(r.step.v))
FiniteValueRange(r) ==
    /\ (is_finite(r.min) \/ r.min = NEG_INFINITY)
    /\ (is_finite(r.max) \/ r.max = INFINITY)
PlainNumbersFinite(r) ==
    IF r.variant = "Study"
    THEN /\ \A i \in 1..Len(r.v.params) : FiniteParamRange(r.v.params[i].range)
         /\ \A i \in 1..Len(r.v.values) : FiniteValueRange(r.v.values[i].range)
    ELSE \A i \in 1..Len(r.v.spans) :
            is_finite(r.v.spans[i].start) /\ is_finite(r.v.spans[i].end)

\* The number literal that holds the finite value v, and the value the
\* number parser reads from a number literal w.
NumberOf(v) == IF v.k = "huge" THEN JHuge(v.n) ELSE JFloat(v.n)
NumberRead(w) == IF w.j = "huge" THEN Huge(ReadBack(w.n)) ELSE Fin(w.n)
\* What a written f64 is read back as: the value the parser reads from its
\* literal when it is finite (the value itself for all but Huge(2), Huge(3)
\* and Huge(4)); an infinite default bound, which is not written, is kept.
AsRead(v) == IF v.k = "huge" THEN Huge(ReadBack(v.n)) ELSE v
AsReadParamRange(r) ==
    IF r.variant = "Numerical"
    THEN [r EXCEPT !.min = AsRead(r.min),
                   !.max = AsRead(r.max),
                   !.step = IF r.step.some THEN Some(AsRead(r.step.v)) ELSE None]
    ELSE r
AsReadValueRange(r) == [min |-> AsRead(r.min), max |-> AsRead(r.max)]
\* The vector with every non-finite entry read as not-a-number.
NonFiniteAsNaN(v) ==
    [i \in 1..Len(v) |-> IF is_finite(v[i]) THEN AsRead(v[i]) ELSE NAN]
Expected(r) ==
    IF r.variant = "Study"
    THEN Study([r.v EXCEPT
            !.params = [i \in 1..Len(r.v.params) |->
                [r.v.params[i] EXCEPT !.range = AsReadParamRange(r.v.params[i].range)]],
            !.values = [i \in 1..Len(r.v.values) |->
                [r.v.values[i] EXCEPT !.range = AsReadValueRange(r.v.values[i].range)]]])
    ELSE Eval([r.v EXCEPT
            !.spans = [i \in 1..Len(r.v.spans) |->
                Span_new(AsRead(r.v.spans[i].start), AsRead(r.v.spans[i].end))],
            !.params = NonFiniteAsNaN(r.v.params),
            !.values = NonFiniteAsNaN(r.v.values)])

\* C1 (as stated): for every Record r, decode(encode(r)) succeeds and equals
\* r field by field, NaN entries of params / values coming back as NaN and
\* every other entry as the same value.
C1_RoundTripEveryRecord ==
    pc = "record-decoded" => out = Ok(val)

\* C1 (amended): for every Record r whose plainly written f64 fields are
\* finite (default ValueRange bounds allowed), decode(encode(r)) succeeds and
\* equals r field by field, except that an infinite entry of params / values
\* comes back as NaN and that a finite f64 comes back as the value the
\* number parser reads from its literal: the same value for every number it
\* reads exactly, a neighbouring f64 otherwise (2.2790121708605243e274 comes
\* back as 2.2790121708605247e274).  NaN entries come back as NaN.
C1_RoundTripFiniteOrNull ==
    (pc = "record-decoded" /\ PlainNumbersFinite(val)) => out = Ok(Expected(val))

\* An Eval record with NaN and finite entries has made the round trip.
C1_Witness ==
    /\ pc = "record-decoded"
    /\ val.variant = "Eval"
    /\ PlainNumbersFinite(val)
    /\ Len(val.v.params) = 2
    /\ val.v.params[1] = NAN
    /\ val.v.params[2] = Fin(1)
    /\ val.v.values = <<NAN>>
    /\ out = Ok(val)

StudyFields == {"id", "attrs", "spans", "params", "values"}
EvalFields == {"study", "trial", "state", "spans", "params", "values"}
VariantKey(r) == IF r.variant = "Study" THEN "study" ELSE "eval"
VariantFields(r) == IF r.variant = "Study" THEN StudyFields ELSE EvalFields

\* C4 (as stated): encode(r) is one object that holds a field "type" equal
\* to "study" or "eval" by the case of r, with the fields of the variant
\* merged into that same object.
C4_TypeTagMerged ==
    pc = "record-encoded" =>
        /\ wire.j = "obj"
        /\ Has(wire, "type")
        /\ Get(wire, "type") = JStr(VariantKey(val))
        /\ VariantFields(val) \subseteq DOMAIN wire.fields

\* C4 (amended): encode(r) is one object with exactly one key, "study" when
\* r is the Study case and "eval" when it is the Eval case; the value under
\* that key is an object holding exactly the fields of the variant; there is
\* no "type" field.
C4_VariantKeyWrapsFields ==
    pc = "record-encoded" =>
        /\ wire.j = "obj"
        /\ DOMAIN wire.fields = {VariantKey(val)}
        /\ Get(wire, VariantKey(val)).j = "obj"
        /\ DOMAIN Get(wire, VariantKey(val)).fields = VariantFields(val)

\* A Study record with one parameter has been encoded.
C4_Witness ==
    /\ pc = "record-encoded"
    /\ val.variant = "Study"
    /\ Len(val.v.params) = 1
    /\ DOMAIN wire.fields = {"study"}
    /\ Get(wire, "study").fields.id = JStr("s1")

(***************************************************************************)
(* SpecCodec: an f64 vector goes through nullable_f64_vec::serialize and   *)
(* the array through nullable_f64_vec::deserialize.                        *)
(***************************************************************************)
InitCodec ==
    /\ val \in Vecs
    /\ wire = JNull
    /\ out = NoResult
    /\ pc = "vec-built"

CodecSerialize ==
    /\ pc = "vec-built"
    /\ wire' = nullable_f64_vec_serialize(val)
    /\ pc' = "vec-encoded"
    /\ UNCHANGED <<val, out>>

CodecDeserialize ==
    /\ pc = "vec-encoded"
    /\ out' = nullable_f64_vec_deserialize(wire)
    /\ pc' = "vec-decoded"
    /\ UNCHANGED <<val, wire>>

NextCodec == CodecSerialize \/ CodecDeserialize

SpecCodec == InitCodec /\ [][NextCodec]_vars

\* C2 (as stated): the encoded array has the length of v and holds null at
\* index i exactly when v[i] is not-a-number, and the numeric value v[i]
\* otherwise (so an infinite entry is written as a number, not as null).
C2_NullExactlyWhenNaN ==
    pc = "vec-encoded" =>
        /\ wire.j = "arr"
        /\ Len(wire.items) = Len(val)
        /\ \A i \in 1..Len(val) :
            /\ (wire.items[i] = JNull) <=> is_nan(val[i])
            /\ ~is_nan(val[i]) => wire.items[i].j \in {"float", "huge"}
            /\ is_finite(val[i]) => wire.items[i] = NumberOf(val[i])

\* C2 (amended): the encoded array has the length of v and holds null at
\* index i exactly when v[i] is not finite (not-a-number, +infinity or
\* -infinity), and the numeric value v[i] otherwise.
C2_NullExactlyWhenNotFinite ==
    pc = "vec-encoded" =>
        /\ wire.j = "arr"
        /\ Len(wire.items) = Len(val)
        /\ \A i \in 1..Len(val) :
            /\ (wire.items[i] = JNull) <=> ~is_finite(val[i])
            /\ is_finite(val[i]) => wire.items[i] = NumberOf(val[i])

\* A vector with an infinite and a finite entry has been encoded.
C2_Witness ==
    /\ pc = "vec-encoded"
    /\ val = <<INFINITY, Fin(1)>>
    /\ wire = JArr(<<JNull, JFloat(1)>>)

(***************************************************************************)
(* SpecEvalWire: an encoded Eval record arrives with arbitrary arrays of   *)
(* null-or-number entries as params and values, and is decoded.  The       *)
(* record comes as an object, or in the positional form with its state in  *)
(* the one-key form.                                                       *)
(***************************************************************************)
WireEntries == {JNull, JInt(MaxFin), JHuge(2)} \cup {JFloat(n) : n \in 0..MaxFin}
WireVecs == SeqsUpTo(WireEntries, MaxLen)

WireEval(pa, va) ==
    JObj("eval" :> JObj([study |-> JStr("s1"),
                         trial |-> JInt(0),
                         state |-> JStr("INTERIM"),
                         spans |-> JArr(<<>>),
                         params |-> JArr(pa),
                         values |-> JArr(va)]))
WireEvalPositional(pa, va) ==
    JObj("eval" :> JArr(<<JStr("s1"), JInt(0), JObj("INTERIM" :> JNull),
                          JArr(<<>>), JArr(pa), JArr(va)>>))

InitEvalWire ==
    /\ val = NoResult
    /\ wire \in {WireEval(pa, va) : pa \in WireVecs, va \in WireVecs}
            \cup {WireEvalPositional(pa, va) :
                    pa \in WireVecs, va \in SeqsUpTo(WireEntries, 1)}
            \cup {WireEvalPositional(pa, va) :
                    pa \in SeqsUpTo(WireEntries, 1), va \in WireVecs}
    /\ out = NoResult
    /\ pc = "eval-received"

EvalWireDecode ==
    /\ pc = "eval-received"
    /\ out' = Record_deserialize(wire)
    /\ pc' = "eval-decoded"
    /\ UNCHANGED <<val, wire>>

NextEvalWire == EvalWireDecode

SpecEvalWire == InitEvalWire /\ [][NextEvalWire]_vars

\* The value a struct's wire form gives for a field, by key in an object and
\* by position in an array; null when it gives none.
WireField(w, key, i) ==
    IF w.j = "obj"
    THEN IF key \in DOMAIN w.fields THEN w.fields[key] ELSE JNull
    ELSE IF i <= Len(w.items) THEN w.items[i] ELSE JNull

\* The f64 a number literal denotes: that of Huge(i) denotes Huge(i).
NumberGiven(w) == IF w.j = "huge" THEN Huge(w.n) ELSE Fin(w.n)

\* What the claim asks of one decoded vector d for the wire array w: each
\* null is not-a-number and each present entry is the given number.
NullsAreNaN(w, d) ==
    /\ Len(d) = Len(w)
    /\ \A i \in 1..Len(w) :
        IF w[i] = JNull THEN d[i] = NAN ELSE d[i] = NumberGiven(w[i])
\* The same, with each present entry the value the number parser reads.
NullsAreNaNNumbersAsRead(w, d) ==
    /\ Len(d) = Len(w)
    /\ \A i \in 1..Len(w) :
        IF w[i] = JNull THEN d[i] = NAN ELSE d[i] = NumberRead(w[i])

GoodStudyFields ==
    [id |-> JStr("s1"), attrs |-> JObj(NoFields), spans |-> JArr(<<>>),
     params |-> JArr(<<>>), values |-> JArr(<<>>)]
GoodEvalFields ==
    [study |-> JStr("s1"), trial |-> JInt(0), state |-> JStr("FAILED"),
     spans |-> JArr(<<>>), params |-> JArr(<<JNull>>), values |-> JArr(<<>>)]

StudyFieldNames == <<"id", "attrs", "spans", "params", "values">>
EvalFieldNames == <<"study", "trial", "state", "spans", "params", "values">>
NumericalFieldNames == <<"min", "max", "step", "scale">>
CategoricalFieldNames == <<"choices">>

Restrict(f, S) == [key \in S |-> f[key]]
\* Some of the fields of f, at most one of them replaced by a boolean, a type
\* no field of the schema has.
Payloads(f) ==
    {Restrict(f, S) : S \in SUBSET DOMAIN f}
    \cup {[Restrict(f, S) EXCEPT ![b] = JBool(TRUE)] : <<S, b>> \in
            {x \in (SUBSET DOMAIN f) \X DOMAIN f : x[2] \in x[1]}}
\* The positional forms of f: its first n fields in the order of names.
Prefixes(f, names) ==
    {JArr([i \in 1..n |-> f[names[i]]]) : n \in 0..Len(names)}

RecordKeys == {"study", "eval", "type", "Study", "record"}
WireRecords ==
    LET GoodEvalFieldsKeyedState ==
            [GoodEvalFields EXCEPT !.state = JObj("FAILED" :> JNull)]
    IN {JObj(key :> JObj(pl)) :
           key \in RecordKeys, pl \in {GoodStudyFields, GoodEvalFields}}
       \cup {JObj(key :> JObj(pl)) :
           key \in {"study"}, pl \in Payloads(GoodStudyFields)}
       \cup {JObj(key :> JObj(pl)) :
           key \in {"eval"}, pl \in Payloads(GoodEvalFields) \cup {GoodEvalFieldsKeyedState}}
       \cup {JObj(key :> a) :
           key \in {"study", "eval"}, a \in Prefixes(GoodStudyFields, StudyFieldNames)}
       \cup {JObj(key :> a) :
           key \in {"study", "eval"}, a \in Prefixes(GoodEvalFieldsKeyedState, EvalFieldNames)}
       \cup {JObj(("type" :> JStr(t)) @@ pl) :
           t \in {"study", "eval"}, pl \in {GoodStudyFields, GoodEvalFields}}
       \cup {JObj(("study" :> JObj(GoodStudyFields)) @@ ("eval" :> JObj(GoodEvalFields))),
             JObj(NoFields)}

GoodParamFields ==
    [name |-> JStr("p"), min |-> JFloat(0), max |-> JFloat(1), step |-> JFloat(1),
     scale |-> JStr("LOG"), choices |-> JArr(<<JStr("a")>>)]
\* Values of the "type" field: the two variant names, other strings, the
\* indices of the variants, a number that is no index, a float and null.
ParamTags ==
    {JStr(t) : t \in {"numerical", "categorical", "Numerical", "NUMERICAL", "ordinal"}}
    \cup {JInt(0), JInt(1), JInt(2), JFloat(0), JNull}
WireParamDefs ==
    LET ParamPayloads ==
            Payloads(GoodParamFields)
            \cup Payloads([GoodParamFields EXCEPT !.scale = JObj("LOG" :> JNull)])
    IN {JObj(pl) : pl \in ParamPayloads}
       \cup {JObj(("type" :> t) @@ pl) : t \in ParamTags, pl \in ParamPayloads}

\* A ParamRange on its own, as an object or in the positional form, the tag
\* first.
WireParamRanges ==
    LET NumericalRow == <<JFloat(0), JFloat(1), JNull, JObj("LOG" :> JObj(NoFields))>>
        WireRows ==
            {SubSeq(NumericalRow, 1, n) : n \in 0..4}
            \cup {NumericalRow \o <<JBool(TRUE)>>,
                  <<JArr(<<JStr("a")>>)>>,
                  <<JArr(<<JStr("a")>>), JFloat(1)>>}
    IN {JObj(("type" :> t) @@ pl) : t \in ParamTags, pl \in Payloads(GoodParamFields)}
       \cup {JArr(<<t>> \o row) : t \in ParamTags, row \in WireRows}
       \cup {JArr(<<>>), JObj(NoFields)}

InitTag ==
    /\ val = NoResult
    /\ out = NoResult
    /\ \/ wire \in WireRecords /\ pc = "received-record"
       \/ wire \in WireParamDefs /\ pc = "received-param"
       \/ wire \in WireParamRanges /\ pc = "received-range"

TagDecodeRecord ==
    /\ pc = "received-record"
    /\ out' = Record_deserialize(wire)
    /\ pc' = "decoded-record"
    /\ UNCHANGED <<val, wire>>

TagDecodeParamDef ==
    /\ pc = "received-param"
    /\ out' = ParamDef_deserialize(wire)
    /\ pc' = "decoded-param"
    /\ UNCHANGED <<val, wire>>

TagDecodeParamRange ==
    /\ pc = "received-range"
    /\ out' = ParamRange_deserialize(wire)
    /\ pc' = "decoded-range"
    /\ UNCHANGED <<val, wire>>

NextTag == TagDecodeRecord \/ TagDecodeParamDef \/ TagDecodeParamRange

SpecTag == InitTag /\ [][NextTag]_vars

\* The fields a struct's wire form p gives, by name: those of an object, and
\* those an array no longer than the struct gives by position.
Keyed(p, names) ==
    IF p.j = "obj" THEN p.fields
    ELSE IF p.j = "arr" /\ Len(p.items) <= Len(names)
    THEN [key \in {names[i] : i \in 1..Len(p.items)} |->
            p.items[CHOOSE i \in 1..Len(names) : names[i] = key]]
    ELSE NoFields

\* The schema's shapes, field by field: the JSON type each required field
\* must have (a unit variant being a string or a one-key object).
HasTyped(f, key, types) == key \in DOMAIN f /\ f[key].j \in types
StudyShape(f) ==
    /\ HasTyped(f, "id", {"str"})
    /\ HasTyped(f, "spans", {"arr"})
    /\ HasTyped(f, "params", {"arr"})
    /\ HasTyped(f, "values", {"arr"})
    /\ ("attrs" \in DOMAIN f => f["attrs"].j = "obj")
EvalShape(f) ==
    /\ HasTyped(f, "study", {"str"})
    /\ HasTyped(f, "trial", {"int"}) /\ f["trial"].n >= 0
    /\ HasTyped(f, "state", {"str", "obj"})
    /\ HasTyped(f, "spans", {"arr"})
    /\ HasTyped(f, "params", {"arr"})
    /\ HasTyped(f, "values", {"arr"})
NumericalShape(f) ==
    /\ HasTyped(f, "min", {"float", "int"})
    /\ HasTyped(f, "max", {"float", "int"})
    /\ ("step" \in DOMAIN f => f["step"].j \in {"float", "int", "null"})
    /\ ("scale" \in DOMAIN f => f["scale"].j \in {"str", "obj"})
CategoricalShape(f) == HasTyped(f, "choices", {"arr"})

\* The variant the discriminator of the object names, "" when it names none
\* or is absent: the single key of a Record, the "type" field of a ParamDef,
\* each the kebab-case name of the variant.
RecordDiscriminator(w) ==
    IF DOMAIN w.fields = {"study"} THEN "Study"
    ELSE IF DOMAIN w.fields = {"eval"} THEN "Eval"
    ELSE ""
TagNames(t) ==
    IF t.j # "str" THEN ""
    ELSE IF t.s = "numerical" THEN "Numerical"
    ELSE IF t.s = "categorical" THEN "Categorical"
    ELSE ""
ParamDiscriminator(w) ==
    IF "type" \in DOMAIN w.fields THEN TagNames(Get(w, "type")) ELSE ""

RecordWellFormed(w) ==
    \/ RecordDiscriminator(w) = "Study"
        /\ StudyShape(Keyed(Get(w, "study"), StudyFieldNames))
    \/ RecordDiscriminator(w) = "Eval"
        /\ EvalShape(Keyed(Get(w, "eval"), EvalFieldNames))
ParamDefWellFormed(w) ==
    /\ HasTyped(w.fields, "name", {"str"})
    /\ \/ ParamDiscriminator(w) = "Numerical" /\ NumericalShape(w.fields)
       \/ ParamDiscriminator(w) = "Categorical" /\ CategoricalShape(w.fields)

\* C5 (as stated): decoding a Record, or a ParamDef with its ParamRange, from
\* an object whose discriminator names no known variant or is absent, or
\* whose other fields lack a required field of the named variant or give it
\* the wrong type, returns the malformed-input error; a decoded value is
\* always of the variant the discriminator names, never a default or another
\* variant.
C5_BadTagIsMalformed ==
    /\ pc = "decoded-record" =>
        /\ ~RecordWellFormed(wire) => out = Err
        /\ out.ok => out.val.variant = RecordDiscriminator(wire)
    /\ pc = "decoded-param" =>
        /\ ~ParamDefWellFormed(wire) => out = Err
        /\ out.ok => out.val.range.variant = ParamDiscriminator(wire)

\* The variant a "type" value selects in a ParamDef: the one it names, or
\* the one whose index in the declaration it is.
TagNamesOrIndexes(t) ==
    IF t.j = "int" /\ t.n = 0 THEN "Numerical"
    ELSE IF t.j = "int" /\ t.n = 1 THEN "Categorical"
    ELSE TagNames(t)
ParamDefSelected(w) ==
    IF "type" \in DOMAIN w.fields THEN TagNamesOrIndexes(Get(w, "type")) ELSE ""
\* The tag and the fields of a ParamRange on its own.
ParamRangeSelected(w) ==
    IF w.j = "obj" THEN ParamDiscriminator(w)
    ELSE IF Len(w.items) >= 1 THEN TagNames(w.items[1])
    ELSE ""
ParamRangeFields(w, names) ==
    IF w.j = "obj" THEN w.fields
    ELSE IF Len(w.items) >= 1 THEN Keyed(JArr(Tail(w.items)), names)
    ELSE NoFields

\* What the decoders do with a discriminator: a Record decodes exactly when
\* its single key names a variant and the payload has that variant's shape; a
\* ParamDef exactly when it has a name and its "type" is the name or the
\* index (0, 1) of a variant whose shape the other fields have; a ParamRange
\* on its own exactly when its tag is the name of a variant whose shape the
\* other fields have.  The decoded value is of the selected variant, and
\* every other input is the malformed-input error.
TagSelectsByNameOrIndex ==
    /\ pc = "decoded-record" =>
        IF RecordWellFormed(wire)
        THEN out.ok /\ out.val.variant = RecordDiscriminator(wire)
        ELSE out = Err
    /\ pc = "decoded-param" =>
        IF /\ HasTyped(wire.fields, "name", {"str"})
           /\ \/ ParamDefSelected(wire) = "Numerical" /\ NumericalShape(wire.fields)
              \/ ParamDefSelected(wire) = "Categorical" /\ CategoricalShape(wire.fields)
        THEN out.ok /\ out.val.range.variant = ParamDefSelected(wire)
        ELSE out = Err
    /\ pc = "decoded-range" =>
        IF \/ /\ ParamRangeSelected(wire) = "Numerical"
              /\ NumericalShape(ParamRangeFields(wire, NumericalFieldNames))
           \/ /\ ParamRangeSelected(wire) = "Categorical"
              /\ CategoricalShape(ParamRangeFields(wire, CategoricalFieldNames))
        THEN out.ok /\ out.val.variant = ParamRangeSelected(wire)
        ELSE out = Err

\* A ParamDef whose "type" is the number 0, with a name and the fields of a
\* Numerical range, has been decoded as a Numerical range.
TagIndexAccepted ==
    /\ pc = "decoded-param"
    /\ Has(wire, "type")
    /\ Get(wire, "type") = JInt(0)
    /\ out.ok
    /\ out.val.range.variant = "Numerical"

(***************************************************************************)
(* SpecParam: a ParamDef is built by one of the four constructors; it is   *)
(* encoded and the encoding decoded, or its range is read through the      *)
(* accessors.                                                              *)
(***************************************************************************)
InitParam ==
    /\ val \in ParamDefs
    /\ wire = JNull
    /\ out = NoResult
    /\ pc = "param-built"

ParamEncode ==
    /\ pc = "param-built"
    /\ wire' = ParamDef_serialize(val)
    /\ pc' = "param-encoded"
    /\ UNCHANGED <<val, out>>

ParamDecode ==
    /\ pc = "param-encoded"
    /\ out' = ParamDef_deserialize(wire)
    /\ pc' = "param-decoded"
    /\ UNCHANGED <<val, wire>>

ParamAccess ==
    /\ pc = "param-built"
    /\ out' = Ok([min |-> ParamRange_min(val.range),
                  max |-> ParamRange_max(val.range),
                  scale |-> ParamRange_scale(val.range)])
    /\ pc' = "param-accessed"
    /\ UNCHANGED <<val, wire>>

NextParam == ParamEncode \/ ParamDecode \/ ParamAccess

SpecParam == InitParam /\ [][NextParam]_vars

\* The keys the flattened encoding of a ParamDef holds.
ParamDefKeys(q) ==
    IF q.range.variant = "Numerical"
    THEN {"name", "type", "min", "max"}
         \cup (IF q.range.step # None THEN {"step"} ELSE {})
         \cup (IF q.range.scale # "Linear" THEN {"scale"} ELSE {})
    ELSE {"name", "type", "choices"}
ParamDefFlattened ==
    pc \in {"param-encoded", "param-decoded"} =>
        /\ wire.j = "obj"
        /\ DOMAIN wire.fields = ParamDefKeys(val)
        /\ Get(wire, "name") = JStr(val.name)
        /\ Get(wire, "type") =
            JStr(IF val.range.variant = "Numerical" THEN "numerical" ELSE "categorical")
ParamDefDefaultsSupplied ==
    (pc = "param-decoded" /\ out.ok /\ out.val.range.variant = "Numerical") =>
        /\ ~Has(wire, "step") => out.val.range.step = None
        /\ ~Has(wire, "scale") => out.val.range.scale = "Linear"
FiniteArguments(q) == FiniteParamRange(q.range)

\* C7 (as stated): the encoding of a ParamDef is one object holding name, a
\* type of "numerical" or "categorical" and the variant's fields at the same
\* level, step written exactly when present and scale exactly when not
\* Linear; decoding without step / scale gives step absent / scale Linear;
\* and decode(encode(p)) == p for every ParamDef built by continuous,
\* log_continuous, discrete or categorical.
C7_FlattenedRoundTripEvery ==
    /\ ParamDefFlattened
    /\ ParamDefDefaultsSupplied
    /\ pc = "param-decoded" => (out.ok /\ ParamDef_eq(out.val, val))

\* C7 (amended): as stated, except that decode(encode(p)) succeeds for every
\* ParamDef built by continuous, log_continuous, discrete or categorical
\* from finite min, max and step, and is p with each of min, max and step
\* as the number parser reads it from its literal: == p when the parser
\* reads all three exactly, and p with a neighbouring f64 in the place of
\* one it does not (a min of 2.2790121708605243e274 comes back as
\* 2.2790121708605247e274).
C7_FlattenedRoundTripFinite ==
    /\ ParamDefFlattened
    /\ ParamDefDefaultsSupplied
    /\ (pc = "param-decoded" /\ FiniteArguments(val)) =>
        /\ out.ok
        /\ ParamDef_eq(out.val, [val EXCEPT !.range = AsReadParamRange(val.range)])
        /\ (AsReadParamRange(val.range) = val.range) <=> ParamDef_eq(out.val, val)

\* continuous("p", 0, 1) has been encoded without step and scale and decoded.
C7_Witness ==
    /\ pc = "param-decoded"
    /\ val = ParamDef_continuous("p", Fin(0), Fin(1))
    /\ DOMAIN wire.fields = {"name", "type", "min", "max"}
    /\ out = Ok(val)

\* C8: min(), max() and scale() return the stored min, max and scale of a
\* Numerical range, and 0, the number of choices and Linear of a Categorical
\* one, whatever the choice list, the empty one included.
C8_UniformAccessors ==
    pc = "param-accessed" =>
        IF val.range.variant = "Numerical"
        THEN /\ out.val.min = val.range.min
             /\ out.val.max = val.range.max
             /\ out.val.scale = val.range.scale
        ELSE /\ out.val.min = Fin(0)
             /\ out.val.max = Fin(Cardinality(DOMAIN val.range.choices))
             /\ out.val.scale = "Linear"

\* The accessors have been read on a categorical range of two choices.
C8_Witness ==
    /\ pc = "param-accessed"
    /\ val.range.variant = "Categorical"
    /\ val.range.choices = <<"a", "b">>
    /\ out.val.min = Fin(0)
    /\ out.val.max = Fin(2)

(***************************************************************************)
(* SpecValue: a ValueDef is encoded and decoded, whole or its range alone; *)
(* or an encoded ValueDef arrives in which a bound or the range is absent, *)
(* as an object or in the positional form.                                 *)
(***************************************************************************)
WireRanges ==
    {JObj(Restrict([min |-> JFloat(0), max |-> JFloat(MaxFin)], S)) :
        S \in SUBSET {"min", "max"}}
    \cup {JArr(SubSeq(<<JFloat(0), JFloat(MaxFin)>>, 1, n)) : n \in 0..2}
WireValueDefs ==
    LET WireDirections == {JStr("MAXIMIZE"), JObj("MAXIMIZE" :> JNull)}
    IN {JObj([name |-> JStr("v"), direction |-> d]) : d \in WireDirections}
       \cup {JObj([name |-> JStr("v"), range |-> r, direction |-> d]) :
               r \in WireRanges, d \in WireDirections}
       \cup {JArr(<<JStr("v"), r, d>>) : r \in WireRanges, d \in WireDirections}

InitValue ==
    /\ out = NoResult
    /\ \/ val \in ValueDefs /\ wire = JNull /\ pc = "value-built"
       \/ val = NoResult /\ wire \in WireValueDefs /\ pc = "value-received"

ValueDefEncode ==
    /\ pc = "value-built"
    /\ wire' = ValueDef_serialize(val)
    /\ pc' = "value-encoded"
    /\ UNCHANGED <<val, out>>

ValueDefDecode ==
    /\ pc \in {"value-encoded", "value-received"}
    /\ out' = ValueDef_deserialize(wire)
    /\ pc' = IF pc = "value-encoded" THEN "value-decoded" ELSE "value-received-decoded"
    /\ UNCHANGED <<val, wire>>

ValueRangeEncode ==
    /\ pc = "value-built"
    /\ wire' = ValueRange_serialize(val.range)
    /\ pc' = "range-encoded"
    /\ UNCHANGED <<val, out>>

ValueRangeDecode ==
    /\ pc = "range-encoded"
    /\ out' = ValueRange_deserialize(wire)
    /\ pc' = "range-decoded"
    /\ UNCHANGED <<val, wire>>

NextValue == ValueDefEncode \/ ValueDefDecode \/ ValueRangeEncode \/ ValueRangeDecode

SpecValue == InitValue /\ [][NextValue]_vars

\* The encoding w of the ValueRange r omits each bound exactly when it is
\* the default one.
BoundsOmittedWhenDefault(r, w) ==
    /\ w.j = "obj"
    /\ DOMAIN w.fields \subseteq {"min", "max"}
    /\ ~Has(w, "min") <=> (r.min = NEG_INFINITY)
    /\ ~Has(w, "max") <=> (r.max = INFINITY)
\* A bound w holds is written as a present value: the number itself.
BoundsPresentAsValues(r, w) ==
    /\ Has(w, "min") => (is_finite(r.min) /\ Get(w, "min") = NumberOf(r.min))
    /\ Has(w, "max") => (is_finite(r.max) /\ Get(w, "max") = NumberOf(r.max))
\* A bound w holds is the number itself when finite, and null when it is
\* not-a-number or the infinity that is not its default.
BoundsPresentOrNull(r, w) ==
    /\ Has(w, "min") =>
        Get(w, "min") = IF is_finite(r.min) THEN NumberOf(r.min) ELSE JNull
    /\ Has(w, "max") =>
        Get(w, "max") = IF is_finite(r.max) THEN NumberOf(r.max) ELSE JNull
\* The ValueRange d decoded from w has the default for each bound w lacks.
AbsentBoundsDefaulted(w, d) ==
    /\ d.min = IF WireField(w, "min", 1) = JNull THEN NEG_INFINITY
               ELSE NumberRead(WireField(w, "min", 1))
    /\ d.max = IF WireField(w, "max", 2) = JNull THEN INFINITY
               ELSE NumberRead(WireField(w, "max", 2))

\* C6 (as stated): the encoding of every ValueRange omits min exactly when
\* min is -infinity and max exactly when max is +infinity, and writes the
\* bound as a present value otherwise; the unbounded default is encoded with
\* neither bound, and the range of a ValueDef that holds it is omitted;
\* decoding a form in which a bound or the whole range is absent gives
\* -infinity / +infinity for the absent bound.
C6_DefaultBoundsOmitted ==
    /\ pc \in {"range-encoded", "range-decoded"} =>
        /\ BoundsOmittedWhenDefault(val.range, wire)
        /\ BoundsPresentAsValues(val.range, wire)
        /\ val.range = ValueRange_default => wire = JObj(NoFields)
    /\ pc \in {"value-encoded", "value-decoded"} =>
        /\ ~Has(wire, "range") <=> (val.range = ValueRange_default)
        /\ Has(wire, "range") =>
            /\ BoundsOmittedWhenDefault(val.range, Get(wire, "range"))
            /\ BoundsPresentAsValues(val.range, Get(wire, "range"))
    /\ (pc = "range-decoded" /\ out.ok) => AbsentBoundsDefaulted(wire, out.val)
    /\ pc = "value-received-decoded" =>
        /\ out.ok
        /\ IF WireField(wire, "range", 2) # JNull
           THEN AbsentBoundsDefaulted(WireField(wire, "range", 2), out.val.range)
           ELSE out.val.range = ValueRange_default

\* C6 (amended): the encoding of every ValueRange omits min exactly when min
\* is -infinity and max exactly when max is +infinity; a bound that is
\* written is the number itself when finite, and null when it is
\* not-a-number or the other infinity.  The unbounded default is encoded with
\* neither bound, and the range of a ValueDef that holds it is omitted.
\* Decoding an encoding gives back the range when each bound is finite or its
\* default, an absent bound read as -infinity / +infinity and a written one
\* as the number parser reads its literal (the bound itself when it reads it
\* exactly, a neighbouring f64 otherwise), and is the malformed-input error
\* when a bound was written as null; decoding a received form in which a
\* bound or the whole range is absent gives -infinity / +infinity for the
\* absent bound.
C6_DefaultBoundsOmittedOrNull ==
    /\ pc \in {"range-encoded", "range-decoded"} =>
        /\ BoundsOmittedWhenDefault(val.range, wire)
        /\ BoundsPresentOrNull(val.range, wire)
        /\ val.range = ValueRange_default => wire = JObj(NoFields)
    /\ pc \in {"value-encoded", "value-decoded"} =>
        /\ ~Has(wire, "range") <=> (val.range = ValueRange_default)
        /\ Has(wire, "range") =>
            /\ BoundsOmittedWhenDefault(val.range, Get(wire, "range"))
            /\ BoundsPresentOrNull(val.range, Get(wire, "range"))
    /\ pc = "range-decoded" =>
        IF FiniteValueRange(val.range)
        THEN out = Ok(AsReadValueRange(val.range)) /\ AbsentBoundsDefaulted(wire, out.val)
        ELSE out = Err
    /\ pc = "value-decoded" =>
        IF FiniteValueRange(val.range)
        THEN out = Ok([val EXCEPT !.range = AsReadValueRange(val.range)])
        ELSE out = Err
    /\ pc = "value-received-decoded" =>
        /\ out.ok
        /\ IF WireField(wire, "range", 2) # JNull
           THEN AbsentBoundsDefaulted(WireField(wire, "range", 2), out.val.range)
           ELSE out.val.range = ValueRange_default

\* A ValueDef bounded above only has been encoded with max alone and decoded.
C6_Witness ==
    /\ pc = "value-decoded"
    /\ val.range = [min |-> NEG_INFINITY, max |-> Fin(1)]
    /\ Has(wire, "range")
    /\ DOMAIN Get(wire, "range").fields = {"max"}
    /\ out = Ok(val)

(***************************************************************************)
(* SpecSpan: a Span is built by Span::new and one accessor is called.      *)
(***************************************************************************)
InitSpan ==
    /\ val \in Spans
    /\ wire = JNull
    /\ out = NoResult
    /\ pc = "span-built"

SpanStart ==
    /\ pc = "span-built"
    /\ out' = Span_start(val)
    /\ pc' = "start()"
    /\ UNCHANGED <<val, wire>>

SpanEnd ==
    /\ pc = "span-built"
    /\ out' = Span_end(val)
    /\ pc' = "end()"
    /\ UNCHANGED <<val, wire>>

SpanDuration ==
    /\ pc = "span-built"
    /\ out' = Span_duration(val)
    /\ pc' = "duration()"
    /\ UNCHANGED <<val, wire>>

NextSpan == SpanStart \/ SpanEnd \/ SpanDuration

SpecSpan == InitSpan /\ [][NextSpan]_vars

\* C10 (as stated): for every Span built by Span::new(start, end), with or
\* without end >= start, duration() returns end minus start and start() /
\* end() return the stored seconds, without failing.
C10_DurationNeverFails ==
    /\ pc = "start()" => (out.ok /\ Fin(out.val) = val.start)
    /\ pc = "end()" => (out.ok /\ Fin(out.val) = val.end)
    /\ pc = "duration()" =>
        (out.ok /\ is_finite(val.start) /\ is_finite(val.end)
            /\ out.val = val.end.n - val.start.n)

\* x is a number of seconds a Duration can hold: finite, not negative and
\* below 2^64.
InDurationRange(x) == x.k = "fin" /\ x.n >= 0

\* C10 (amended): start() and end() return the stored seconds when they are
\* finite, not negative and within Duration's range, and panic otherwise;
\* duration() returns end minus start when both are such values and
\* start <= end, and panics otherwise.
C10_DurationOfOrderedSpan ==
    /\ pc = "start()" =>
        IF InDurationRange(val.start) THEN out = Ok(val.start.n) ELSE out = Panic
    /\ pc = "end()" =>
        IF InDurationRange(val.end) THEN out = Ok(val.end.n) ELSE out = Panic
    /\ pc = "duration()" =>
        IF InDurationRange(val.start) /\ InDurationRange(val.end) /\ val.start.n <= val.end.n
        THEN out = Ok(val.end.n - val.start.n)
        ELSE out = Panic

\* duration() has been called on the span from 0 to 1.
C10_Witness ==
    /\ pc = "duration()"
    /\ val = Span_new(Fin(0), Fin(1))
    /\ out = Ok(1)

(***************************************************************************)
(* The whole program: any of the values above is built or received, and    *)
(* any operation applies to it.                                            *)
(***************************************************************************)
Init ==
    \/ InitRecord
    \/ InitCodec
    \/ InitEvalWire
    \/ InitTag
    \/ InitParam
    \/ InitValue
    \/ InitSpan

Next ==
    \/ RecordEncode \/ RecordDecode
    \/ CodecSerialize \/ CodecDeserialize
    \/ EvalWireDecode
    \/ TagDecodeRecord \/ TagDecodeParamDef \/ TagDecodeParamRange
    \/ ParamEncode \/ ParamDecode \/ ParamAccess
    \/ ValueDefEncode \/ ValueDefDecode \/ ValueRangeEncode \/ ValueRangeDecode
    \/ SpanStart \/ SpanEnd \/ SpanDuration

Spec == Init /\ [][Next]_vars

====
